---- MODULE Spec2Model ----
(***************************************************************************)
(* A model of textsplit.py: split_greedy, split_optimal, get_penalty, P_k, *)
(* get_total and get_gains.                                                *)
(*                                                                         *)
(* Numbers.  The code computes with floating point; the model computes in  *)
(* exact fixed point: a mass (a Euclidean norm) is the integer square root *)
(* of Scale^2 times the squared length, so every score, gain, penalty and  *)
(* total is an integer count of 1/Scale units.  The rounding of float64    *)
(* sums, and of the float32 arrays acc and colmax of split_optimal, is     *)
(* outside the model: equalities and inequalities between totals are those *)
(* of exact arithmetic.                                                    *)
(*                                                                         *)
(* Arrays.  A numpy array of length n is a function on 0..n-1, a Python    *)
(* list is a sequence, a dict is a function on its keys, None is <<>> and  *)
(* a given optional value x is <<x>>.                                      *)
(***************************************************************************)
EXTENDS Integers, Sequences, FiniteSets, TLC

\* Longest document the model explores.
MaxL == 4

\* Fixed-point resolution: one unit of mass is Scale model units.
Scale == 10

\* -np.inf, the forbidden split position's score (absorbing under addition).
NegInf == -1000000

\* The vectors a document is built from (dimension 2).
Vecs == {<<1, 0>>, <<0, 1>>, <<-1, 0>>}

dim == Len(CHOOSE v \in Vecs : TRUE)

None == <<>>

Some(x) == <<x>>

\* Penalties and minimal gains given to the splitters, in model units.
Pens == {Scale \div 2, (3 * Scale) \div 2}

---------------------------------------------------------------------------
\* Vector arithmetic and the norm.

Abs(x) == IF x < 0 THEN -x ELSE x

SetMax(S) == CHOOSE x \in S : \A y \in S : y <= x

SetMin(S) == CHOOSE x \in S : \A y \in S : x <= y

RECURSIVE SumSeq(_)
SumSeq(s) == IF s = <<>> THEN 0 ELSE Head(s) + SumSeq(Tail(s))

ZeroVec == [k \in 1..dim |-> 0]

VecAdd(u, v) == [k \in 1..dim |-> u[k] + v[k]]

VecSub(u, v) == [k \in 1..dim |-> u[k] - v[k]]

SqLen(v) == SumSeq([k \in 1..dim |-> v[k] * v[k]])

\* numpy.linalg.norm(v, ord=2) in fixed point: floor(Scale * sqrt(v . v)).
norm(v) ==
  LET n  == Scale * Scale * SqLen(v)
      lo == Scale * SetMax({Abs(v[k]) : k \in 1..dim})
      hi == Scale * SumSeq([k \in 1..dim |-> Abs(v[k])])
  IN  CHOOSE r \in lo..hi : r * r <= n /\ n < (r + 1) * (r + 1)

\* a + b where either may be -inf.
Plus(a, b) == IF a = NegInf \/ b = NegInf THEN NegInf ELSE a + b

\* np.cumsum(np.vstack((zeros, docmat)), axis=0): cumvecs[j] = w_0 + ... + w_{j-1}.
RECURSIVE CumVec(_, _)
CumVec(doc, j) == IF j = 0 THEN ZeroVec ELSE VecAdd(CumVec(doc, j - 1), doc[j - 1])

Shape0(doc) == Cardinality(DOMAIN doc)

cumvecs_of(doc) == [j \in 0..Shape0(doc) |-> CumVec(doc, j)]

\* np.argmax: the lowest index holding the maximum.
argmax(a) == SetMin({j \in DOMAIN a : \A k \in DOMAIN a : a[k] <= a[j]})

sorted(s) == SortSeq(s, LAMBDA a, b : a < b)

\* The elements of a sequence as a set.
Range(s) == {s[k] : k \in 1..Len(s)}

---------------------------------------------------------------------------
\* split_greedy

\* Lines 46-54: the loop's state when the while loop is first reached.
GreedyStart(doc) ==
  LET L       == Shape0(doc)
      cumvecs == cumvecs_of(doc)
      sl      == [j \in 0..(L - 1) |-> norm(VecSub(cumvecs[j], cumvecs[0]))]
      sr      == [j \in 0..(L - 1) |-> norm(VecSub(cumvecs[L], cumvecs[j]))]
      so      == [j \in 0..(L - 1) |-> IF j = 0 THEN NegInf ELSE 0]
  IN  [cuts      |-> <<0, L>>,
       segscore  |-> (0 :> norm(VecSub(cumvecs[L], cumvecs[0]))) @@ (L :> 0),
       score_l   |-> sl,
       score_r   |-> sr,
       score_out |-> so,
       score     |-> [j \in 0..(L - 1) |-> Plus(Plus(so[j], sl[j]), sr[j])]]

\* GreedyRepair without line 88: score_out left of the split is not corrected
\* by the mass of the new right segment.
GreedyRepair_NoLeftCorrection(cumvecs, st, seg, cts, split, cut_l, cut_r, split_gain) ==
  LET D   == DOMAIN st.score_l
      sl  == [j \in D |-> IF split <= j /\ j < cut_r
                          THEN norm(VecSub(cumvecs[j], cumvecs[split]))
                          ELSE st.score_l[j]]
      sr  == [j \in D |-> IF cut_l <= j /\ j < split
                          THEN norm(VecSub(cumvecs[split], cumvecs[j]))
                          ELSE st.score_r[j]]
      so1 == [j \in D |-> Plus(st.score_out[j], split_gain)]
      so3 == [j \in D |-> IF split <= j /\ j < cut_r
                          THEN Plus(so1[j], seg[cut_l] - split_gain)
                          ELSE so1[j]]
      so  == [so3 EXCEPT ![split] = NegInf]
  IN  [cuts      |-> cts,
       segscore  |-> seg,
       score_l   |-> sl,
       score_r   |-> sr,
       score_out |-> so,
       score     |-> [j \in D |-> Plus(Plus(so[j], sl[j]), sr[j])]]

\* Lines 80-93: the differential repair of the score arrays after `split` was
\* inserted between cut_l and cut_r; seg is segscore after lines 70-71.
GreedyRepair(cumvecs, st, seg, cts, split, cut_l, cut_r, split_gain) ==
  LET D   == DOMAIN st.score_l
      sl  == [j \in D |-> IF split <= j /\ j < cut_r
                          THEN norm(VecSub(cumvecs[j], cumvecs[split]))
                          ELSE st.score_l[j]]
      sr  == [j \in D |-> IF cut_l <= j /\ j < split
                          THEN norm(VecSub(cumvecs[split], cumvecs[j]))
                          ELSE st.score_r[j]]
      so1 == [j \in D |-> Plus(st.score_out[j], split_gain)]
      so2 == [j \in D |-> IF cut_l <= j /\ j < split
                          THEN Plus(so1[j], seg[split] - split_gain)
                          ELSE so1[j]]
      so3 == [j \in D |-> IF split <= j /\ j < cut_r
                          THEN Plus(so2[j], seg[cut_l] - split_gain)
                          ELSE so2[j]]
      so  == [so3 EXCEPT ![split] = NegInf]
  IN  [cuts      |-> cts,
       segscore  |-> seg,
       score_l   |-> sl,
       score_r   |-> sr,
       score_out |-> so,
       score     |-> [j \in D |-> Plus(Plus(so[j], sl[j]), sr[j])]]

\* Lines 76-78: the stop on the number of cuts, tested after the insertion.
MaxSplitsReached(max_splits, cts) ==
  max_splits # None /\ Len(cts) >= max_splits[1] + 2

\* Lines 57-93: one pass of the while body.  brk says whether it left the loop.
GreedyBody(doc, min_gain, max_splits, st) ==
  LET cumvecs    == cumvecs_of(doc)
      split      == argmax(st.score)
      cut_l      == SetMax({c \in Range(st.cuts) : c < split})
      cut_r      == SetMin({c \in Range(st.cuts) : split < c})
      split_gain == st.score_l[split] + st.score_r[split] - st.segscore[cut_l]
      seg        == [c \in DOMAIN st.segscore \cup {split} |->
                       IF c = cut_l THEN st.score_l[split]
                       ELSE IF c = split THEN st.score_r[split]
                       ELSE st.segscore[c]]
      cts        == sorted(Append(st.cuts, split))
  IN  IF st.score[split] = NegInf
        THEN [brk |-> TRUE, st |-> st]
      ELSE IF min_gain # None /\ split_gain < min_gain[1]
        THEN [brk |-> TRUE, st |-> st]
      ELSE IF MaxSplitsReached(max_splits, cts)
        THEN [brk |-> TRUE, st |-> [st EXCEPT !.cuts = cts, !.segscore = seg]]
      ELSE [brk |-> FALSE,
            st  |-> GreedyRepair(cumvecs, st, seg, cts, split, cut_l, cut_r, split_gain)]

\* GreedyReturn with splits = cuts[1:]: the closing cut L is returned too.
GreedyReturn_KeepsLastCut(doc, min_gain, st) ==
  LET cumvecs == cumvecs_of(doc)
      cts     == sorted(st.cuts)
      n       == Len(cts)
      splits  == SubSeq(cts, 2, n)
      total   == IF min_gain = None THEN None
                 ELSE Some(SumSeq([k \in 1..(n - 1) |->
                                     norm(VecSub(cumvecs[cts[k]], cumvecs[cts[k + 1]]))])
                           - Len(splits) * min_gain[1])
      gains   == [k \in 1..(n - 2) |->
                    st.segscore[cts[k]] + st.segscore[cts[k + 1]]
                    - norm(VecSub(cumvecs[cts[k + 2]], cumvecs[cts[k]]))]
  IN  [kind |-> "ok", total |-> total, splits |-> splits, gains |-> gains]

\* Lines 95-107: total, splits and gains from the final cuts.
GreedyReturn(doc, min_gain, st) ==
  LET cumvecs == cumvecs_of(doc)
      cts     == sorted(st.cuts)
      n       == Len(cts)
      splits  == SubSeq(cts, 2, n - 1)
      total   == IF min_gain = None THEN None
                 ELSE Some(SumSeq([k \in 1..(n - 1) |->
                                     norm(VecSub(cumvecs[cts[k]], cumvecs[cts[k + 1]]))])
                           - Len(splits) * min_gain[1])
      gains   == [k \in 1..(n - 2) |->
                    st.segscore[cts[k]] + st.segscore[cts[k + 1]]
                    - norm(VecSub(cumvecs[cts[k + 2]], cumvecs[cts[k]]))]
  IN  [kind |-> "ok", total |-> total, splits |-> splits, gains |-> gains]

\* Line 40: the assertion on the arguments.
GreedyAdmissible(min_gain, max_splits) ==
  max_splits # None \/ (min_gain # None /\ min_gain[1] > 0)

RECURSIVE GreedyLoop(_, _, _, _)
GreedyLoop(doc, min_gain, max_splits, st) ==
  LET r == GreedyBody(doc, min_gain, max_splits, st)
  IN  IF r.brk THEN r.st ELSE GreedyLoop(doc, min_gain, max_splits, r.st)

\* The whole call.  A document of length 0 fails at line 53 (score_out[0] of
\* an empty array).
split_greedy(doc, min_gain, max_splits) ==
  IF ~GreedyAdmissible(min_gain, max_splits) THEN [kind |-> "AssertionError"]
  ELSE IF Shape0(doc) = 0 THEN [kind |-> "IndexError"]
  ELSE GreedyReturn(doc, min_gain, GreedyLoop(doc, min_gain, max_splits, GreedyStart(doc)))

---------------------------------------------------------------------------
\* get_gains and get_total

\* docmat[a:b, :].sum(axis=0); an empty slice sums to the zero vector.
RECURSIVE SliceSum(_, _, _)
SliceSum(doc, a, b) == IF a >= b THEN ZeroVec ELSE VecAdd(SliceSum(doc, a, b - 1), doc[b - 1])

\* Lines 218-231; width is None or <<w>>.  Every gain is a one-element list.
get_gains(doc, splits, width) ==
  LET L == Shape0(doc)
      n == Len(splits)
      gain(k) ==
        LET cen  == splits[k]
            beg0 == IF k = 1 THEN 0 ELSE splits[k - 1]
            end0 == IF k = n THEN L ELSE splits[k + 1]
            win  == width # None /\ width[1] > 0
            beg  == IF win THEN SetMax({cen - width[1], 0}) ELSE beg0
            end  == IF win THEN SetMin({cen + width[1], L}) ELSE end0
        IN  <<norm(SliceSum(doc, beg, cen)) + norm(SliceSum(doc, cen, end))
              - norm(SliceSum(doc, beg, end))>>
  IN  [k \in 1..n |-> gain(k)]

\* Lines 204-208.
get_total(doc, splits, penalty) ==
  LET L       == Shape0(doc)
      cts     == <<0>> \o splits \o <<L>>
      cumvecs == cumvecs_of(doc)
  IN  SumSeq([k \in 1..(Len(cts) - 1) |->
                norm(VecSub(cumvecs[cts[k]], cumvecs[cts[k + 1]]))])
      - Len(splits) * penalty

---------------------------------------------------------------------------
\* split_optimal

\* Line 125.
LimOf(doc, seg_limit) == IF seg_limit = None THEN Shape0(doc) ELSE seg_limit[1]

\* Lines 129-131.
OptStart(doc, lim) ==
  LET L == Shape0(doc)
  IN  [acc    |-> [r \in 0..(L - 1) |-> [d \in 0..(lim - 1) |-> NegInf]],
       colmax |-> [j \in 0..(L - 1) |-> NegInf],
       ptr    |-> [j \in 0..(L - 1) |-> 0]]

\* WinSz for the slice docmat[i:i+lim-1]: the window one row short.
WinSz_OneShort(doc, lim, i) == SetMin({lim - 1, Shape0(doc) - i})

\* Lines 136-137: the window of row i. winsz rows of docmat[i:i+lim] exist.
WinSz(doc, lim, i) == SetMin({lim, Shape0(doc) - i})

\* OptRow with ptr[i:i+lim] = i: the pointer is set over the whole window, not
\* only where the row improves the column maximum.
OptRow_PtrUnfiltered(doc, penalty, lim, i, st) ==
  LET score_so_far == IF i > 0 THEN st.colmax[i - 1] ELSE 0
      winsz        == SetMin({lim, Shape0(doc) - i})
      score        == [d \in 0..(winsz - 1) |-> norm(SliceSum(doc, i, i + d + 1))]
      row          == [d \in 0..(lim - 1) |->
                         IF d < winsz THEN Plus(score_so_far, score[d] - penalty)
                         ELSE st.acc[i][d]]
      deltas       == {d \in 0..(winsz - 1) : row[d] > st.colmax[i + d]}
  IN  [acc    |-> [st.acc EXCEPT ![i] = row],
       colmax |-> [j \in DOMAIN st.colmax |->
                     IF j - i \in deltas THEN row[j - i] ELSE st.colmax[j]],
       ptr    |-> [j \in DOMAIN st.ptr |->
                     IF j - i \in 0..(winsz - 1) THEN i ELSE st.ptr[j]]]

\* Lines 134-144: row i of the forward pass.
OptRow(doc, penalty, lim, i, st) ==
  LET score_so_far == IF i > 0 THEN st.colmax[i - 1] ELSE 0
      winsz        == WinSz(doc, lim, i)
      score        == [d \in 0..(winsz - 1) |-> norm(SliceSum(doc, i, i + d + 1))]
      row          == [d \in 0..(lim - 1) |->
                         IF d < winsz THEN Plus(score_so_far, score[d] - penalty)
                         ELSE st.acc[i][d]]
      deltas       == {d \in 0..(winsz - 1) : row[d] > st.colmax[i + d]}
  IN  [acc    |-> [st.acc EXCEPT ![i] = row],
       colmax |-> [j \in DOMAIN st.colmax |->
                     IF j - i \in deltas THEN row[j - i] ELSE st.colmax[j]],
       ptr    |-> [j \in DOMAIN st.ptr |->
                     IF j - i \in deltas THEN i ELSE st.ptr[j]]]

\* Lines 146-148: the backward walk over ptr.
RECURSIVE PathLoop(_, _)
PathLoop(ptr, path) ==
  IF path[1] # 0 THEN PathLoop(ptr, <<ptr[path[1] - 1]>> \o path) ELSE path

\* Line 152: all(np.diff([0] + splits + [L]) < lim).
OptimalFlag(splits, L, lim) ==
  LET cts == <<0>> \o splits \o <<L>>
  IN  \A k \in 1..(Len(cts) - 1) : cts[k + 1] - cts[k] < lim

\* OptReturn with total = colmax[-1]: the penalty of the first segment is
\* not given back.
OptReturn_PenaltyNotReturned(doc, penalty, seg_limit, lim, st) ==
  LET L      == Shape0(doc)
      path   == PathLoop(st.ptr, <<st.ptr[L - 1]>>)
      splits == Tail(path)
      base   == [kind   |-> "ok",
                 total  |-> st.colmax[L - 1],
                 splits |-> splits,
                 gains  |-> get_gains(doc, splits, None)]
  IN  IF seg_limit # None
        THEN base @@ [optimal |-> OptimalFlag(splits, L, lim)]
        ELSE base

\* Lines 146-159.
OptReturn(doc, penalty, seg_limit, lim, st) ==
  LET L      == Shape0(doc)
      path   == PathLoop(st.ptr, <<st.ptr[L - 1]>>)
      splits == Tail(path)
      base   == [kind   |-> "ok",
                 total  |-> Plus(st.colmax[L - 1], penalty),
                 splits |-> splits,
                 gains  |-> get_gains(doc, splits, None)]
  IN  IF seg_limit # None
        THEN base @@ [optimal |-> OptimalFlag(splits, L, lim)]
        ELSE base

\* Lines 126-127: the assertions on the arguments.
OptAdmissible(doc, penalty, seg_limit) == LimOf(doc, seg_limit) > 0 /\ penalty > 0

RECURSIVE OptLoop(_, _, _, _, _)
OptLoop(doc, penalty, lim, i, st) ==
  IF i >= Shape0(doc) THEN st
  ELSE OptLoop(doc, penalty, lim, i + 1, OptRow(doc, penalty, lim, i, st))

\* The whole call.  A document of length 0 fails the assertion on lim when
\* seg_limit is not given, and otherwise fails at line 146 (ptr[-1] of an
\* empty array).
split_optimal(doc, penalty, seg_limit) ==
  LET lim == LimOf(doc, seg_limit)
  IN  IF ~OptAdmissible(doc, penalty, seg_limit) THEN [kind |-> "AssertionError"]
      ELSE IF Shape0(doc) = 0 THEN [kind |-> "IndexError"]
      ELSE OptReturn(doc, penalty, seg_limit, lim,
                     OptLoop(doc, penalty, lim, 0, OptStart(doc, lim)))

---------------------------------------------------------------------------
\* get_penalty

\* segment_len is a positive float; the model gives it in halves, so that
\* docmat.shape[0] / segment_len = (2 * L) / halves.
SegLens == {1, 2, 3, 4}

\* Line 171-172: int(avg_n_seg), and whether avg_n_seg % 1 is positive.
AvgInt(doc, halves) == (2 * Shape0(doc)) \div halves

AvgHasFraction(doc, halves) == (2 * Shape0(doc)) % halves # 0

\* Lines 171-176 for one document.  up is the outcome of
\* random.random() < avg_n_seg % 1.  tag is "skip" when the document does not
\* qualify, "raise" when the call fails (fewer than two gains come back), and
\* "append" with twice the appended penalty, low_gains[0] + low_gains[1].
DocPenalty(doc, halves, up) ==
  LET max_splits == AvgInt(doc, halves) + (IF up THEN 1 ELSE 0) - 1
      res        == split_greedy(doc, None, Some(max_splits + 1))
  IN  IF max_splits >= 1
        THEN IF res.kind # "ok" THEN [tag |-> "raise", kind |-> res.kind]
             ELSE LET low_gains == sorted(res.gains)
                  IN  IF Len(low_gains) < 2 THEN [tag |-> "raise", kind |-> "IndexError"]
                      ELSE [tag |-> "append", twice |-> low_gains[1] + low_gains[2]]
        ELSE [tag |-> "skip"]

\* Line 177: np.mean of the list; the mean of an empty list is nan.  The mean
\* is the fraction num / den.
MeanOf(twice) ==
  IF Len(twice) = 0 THEN [kind |-> "ok", nan |-> TRUE]
  ELSE [kind |-> "ok", nan |-> FALSE, num |-> SumSeq(twice), den |-> 2 * Len(twice)]

\* Lines 170-176: the loop over the corpus from document n on; twice holds
\* the doubled penalties appended so far.  The first failing call ends it.
RECURSIVE PenaltyLoop(_, _, _, _, _)
PenaltyLoop(docmats, halves, ups, n, twice) ==
  IF n > Len(docmats) THEN MeanOf(twice)
  ELSE LET p == DocPenalty(docmats[n], halves, ups[n])
       IN  CASE p.tag = "raise"  -> [kind |-> p.kind]
             [] p.tag = "append" ->
                  PenaltyLoop(docmats, halves, ups, n + 1, Append(twice, p.twice))
             [] OTHER -> PenaltyLoop(docmats, halves, ups, n + 1, twice)

\* Lines 169-177; ups[n] is the random draw's outcome for document n.
get_penalty(docmats, halves, ups) == PenaltyLoop(docmats, halves, ups, 1, <<>>)

---------------------------------------------------------------------------
\* P_k

\* Python's round() of num / den (den > 0): to the nearest integer, a tie to
\* the even one.
RoundHalfEven(num, den) ==
  LET q == num \div den
      r == num - q * den
  IN  IF 2 * r < den THEN q
      ELSE IF 2 * r > den THEN q + 1
      ELSE IF q % 2 = 0 THEN q ELSE q + 1

\* Line 186: k = round(N / (len(splits_ref) + 1) / 2 - 1).
ProbeK(splits_ref, N) ==
  RoundHalfEven(N - 2 * (Len(splits_ref) + 1), 2 * (Len(splits_ref) + 1))

\* Lines 190-191.
is_split_between(splits, l, r) ==
  \E n \in 1..Len(splits) : splits[n] - l > 0 /\ splits[n] - r < 0

\* Lines 186-197: the ratio acc / (N - k), as a fraction.
P_k(splits_ref, splits_hyp, N) ==
  LET k   == ProbeK(splits_ref, N)
      acc == Cardinality({t \in 0..(N - k - 1) :
                 is_split_between(splits_ref, t, t + k)
                 # is_split_between(splits_hyp, t, t + k)})
  IN  IF N - k = 0 THEN [kind |-> "ZeroDivisionError"]
      ELSE [kind |-> "ok", num |-> acc, den |-> N - k]

---------------------------------------------------------------------------
\* The program's state: one document and one call of one of the module's
\* functions on it (the functions keep nothing between calls).  The two
\* splitters run their loops one pass per step.

VARIABLES
  docmat,     \* the document: L vectors
  pc,         \* "idle", "greedy_while" (line 56), "optimal_for" (line 133), "done"
  fn,         \* the function called
  args,       \* its arguments
  ret,        \* what the call returned or raised
  cuts, segscore, score_l, score_r, score_out, score,   \* split_greedy's locals
  i, acc, colmax, ptr                                   \* split_optimal's locals

vars == <<docmat, pc, fn, args, ret, cuts, segscore, score_l, score_r, score_out,
          score, i, acc, colmax, ptr>>

greedy_locals == <<cuts, segscore, score_l, score_r, score_out, score>>

optimal_locals == <<i, acc, colmax, ptr>>

L == Shape0(docmat)

Docs == UNION {[0..(n - 1) -> Vecs] : n \in 0..MaxL}

OptionOf(S) == {None} \cup {Some(x) : x \in S}

\* The arguments the calls are tried with.
MinGains == OptionOf(Pens)

SplitLimits == OptionOf({0, 1, 2})

Penalties == Pens \cup {0}

SegLimits == OptionOf(0..(MaxL + 1))

Prefix(doc, n) == [j \in 0..(n - 1) |-> doc[j]]

\* Corpora of at most two documents, each a prefix of docmat.
Corpora ==
  LET P == {Prefix(docmat, n) : n \in 0..L}
  IN  {<<>>} \cup {<<d>> : d \in P} \cup {<<d, e>> : d \in P, e \in {docmat}}

\* Sorted lists of at most one split position inside (0, N).
SplitLists(N) == {<<>>} \cup {<<a>> : a \in 1..(N - 1)}

\* The locals as GreedyBody's and OptRow's state records.
GreedyState ==
  [cuts |-> cuts, segscore |-> segscore, score_l |-> score_l, score_r |-> score_r,
   score_out |-> score_out, score |-> score]

OptState == [acc |-> acc, colmax |-> colmax, ptr |-> ptr]

SetGreedyState(st) ==
  /\ cuts' = st.cuts
  /\ segscore' = st.segscore
  /\ score_l' = st.score_l
  /\ score_r' = st.score_r
  /\ score_out' = st.score_out
  /\ score' = st.score

DropGreedyState ==
  /\ cuts' = <<>>
  /\ segscore' = <<>>
  /\ score_l' = <<>>
  /\ score_r' = <<>>
  /\ score_out' = <<>>
  /\ score' = <<>>

DropOptState == i' = 0 /\ acc' = <<>> /\ colmax' = <<>> /\ ptr' = <<>>

Init ==
  /\ docmat \in Docs
  /\ pc = "idle"
  /\ fn = "none"
  /\ args = [none |-> TRUE]
  /\ ret = [kind |-> "none"]
  /\ cuts = <<>> /\ segscore = <<>> /\ score_l = <<>>
  /\ score_r = <<>> /\ score_out = <<>> /\ score = <<>>
  /\ i = 0 /\ acc = <<>> /\ colmax = <<>> /\ ptr = <<>>

\* split_greedy, lines 38-54: the call fails, or reaches the while loop.
CallSplitGreedy(min_gain, max_splits) ==
  /\ pc = "idle"
  /\ fn' = "split_greedy"
  /\ args' = [min_gain |-> min_gain, max_splits |-> max_splits]
  /\ IF ~GreedyAdmissible(min_gain, max_splits) \/ L = 0
       THEN /\ ret' = split_greedy(docmat, min_gain, max_splits)
            /\ pc' = "done"
            /\ DropGreedyState
       ELSE /\ ret' = [kind |-> "running"]
            /\ pc' = "greedy_while"
            /\ SetGreedyState(GreedyStart(docmat))
  /\ UNCHANGED <<docmat, optimal_locals>>

\* One pass of the while body that inserts a split and comes back to line 56.
GreedyIterate ==
  /\ pc = "greedy_while"
  /\ LET r == GreedyBody(docmat, args.min_gain, args.max_splits, GreedyState)
     IN  /\ ~r.brk
         /\ SetGreedyState(r.st)
  /\ UNCHANGED <<docmat, pc, fn, args, ret, optimal_locals>>

\* The pass that breaks, and lines 95-107 after the loop.
GreedyBreak ==
  /\ pc = "greedy_while"
  /\ LET r == GreedyBody(docmat, args.min_gain, args.max_splits, GreedyState)
     IN  /\ r.brk
         /\ ret' = GreedyReturn(docmat, args.min_gain, r.st)
  /\ pc' = "done"
  /\ DropGreedyState
  /\ UNCHANGED <<docmat, fn, args, optimal_locals>>

\* split_optimal, lines 124-131: an assertion fails, or the for loop is reached.
CallSplitOptimal(penalty, seg_limit) ==
  /\ pc = "idle"
  /\ fn' = "split_optimal"
  /\ args' = [penalty |-> penalty, seg_limit |-> seg_limit]
  /\ IF ~OptAdmissible(docmat, penalty, seg_limit)
       THEN /\ ret' = split_optimal(docmat, penalty, seg_limit)
            /\ pc' = "done"
            /\ DropOptState
       ELSE /\ ret' = [kind |-> "running"]
            /\ pc' = "optimal_for"
            /\ i' = 0
            /\ LET st == OptStart(docmat, LimOf(docmat, seg_limit))
               IN  acc' = st.acc /\ colmax' = st.colmax /\ ptr' = st.ptr
  /\ UNCHANGED <<docmat, greedy_locals>>

\* One row of the forward pass.
OptimalFor ==
  /\ pc = "optimal_for"
  /\ i < L
  /\ LET st == OptRow(docmat, args.penalty, LimOf(docmat, args.seg_limit), i, OptState)
     IN  acc' = st.acc /\ colmax' = st.colmax /\ ptr' = st.ptr
  /\ i' = i + 1
  /\ UNCHANGED <<docmat, pc, fn, args, ret, greedy_locals>>

\* Lines 146-159 after the loop; ptr[-1] of an empty array raises.
OptimalReturn ==
  /\ pc = "optimal_for"
  /\ i >= L
  /\ ret' = IF L = 0 THEN [kind |-> "IndexError"]
            ELSE OptReturn(docmat, args.penalty, args.seg_limit,
                           LimOf(docmat, args.seg_limit), OptState)
  /\ pc' = "done"
  /\ DropOptState
  /\ UNCHANGED <<docmat, fn, args, greedy_locals>>

\* get_penalty, whole.  A draw can come out true only when avg_n_seg has a
\* fraction.
CallGetPenalty(docmats, halves, ups) ==
  /\ pc = "idle"
  /\ \A n \in 1..Len(docmats) : ups[n] => AvgHasFraction(docmats[n], halves)
  /\ fn' = "get_penalty"
  /\ args' = [docmats |-> docmats, segment_len_halves |-> halves, ups |-> ups]
  /\ ret' = get_penalty(docmats, halves, ups)
  /\ pc' = "done"
  /\ UNCHANGED <<docmat, greedy_locals, optimal_locals>>

\* P_k, whole.
CallPk(splits_ref, splits_hyp, N) ==
  /\ pc = "idle"
  /\ fn' = "P_k"
  /\ args' = [splits_ref |-> splits_ref, splits_hyp |-> splits_hyp, N |-> N]
  /\ ret' = P_k(splits_ref, splits_hyp, N)
  /\ pc' = "done"
  /\ UNCHANGED <<docmat, greedy_locals, optimal_locals>>

Next ==
  \/ \E min_gain \in MinGains, max_splits \in SplitLimits :
       CallSplitGreedy(min_gain, max_splits)
  \/ GreedyIterate
  \/ GreedyBreak
  \/ \E penalty \in Penalties, seg_limit \in SegLimits :
       CallSplitOptimal(penalty, seg_limit)
  \/ OptimalFor
  \/ OptimalReturn
  \/ \E docmats \in Corpora, halves \in SegLens :
       \E ups \in [1..Len(docmats) -> BOOLEAN] : CallGetPenalty(docmats, halves, ups)
  \/ \E N \in {L, 2 * L} :
       \E splits_ref \in SplitLists(N), splits_hyp \in SplitLists(N) :
         CallPk(splits_ref, splits_hyp, N)

Spec == Init /\ [][Next]_vars

---------------------------------------------------------------------------
\* Reference definitions the properties are stated with.

\* The call of f has returned normally.
Returned(f) == pc = "done" /\ fn = f /\ ret.kind = "ok"

\* The call of f has ended, by a return or by an exception.
Ended(f) == pc = "done" /\ fn = f

\* Mass of the segment [a, b): the norm of the sum of its vectors.
Mass(a, b) == norm(VecSub(CumVec(docmat, b), CumVec(docmat, a)))

RECURSIVE SortedSeqOf(_)
SortedSeqOf(S) ==
  IF S = {} THEN <<>> ELSE <<SetMin(S)>> \o SortedSeqOf(S \ {SetMin(S)})

\* Sum of the masses of the segments between consecutive cuts of C.
TotalMass(C) ==
  LET cts == SortedSeqOf(C)
  IN  SumSeq([k \in 1..(Len(cts) - 1) |-> Mass(cts[k], cts[k + 1])])

\* Longest segment of the segmentation with cuts C.
LongestSegment(C) ==
  LET cts == SortedSeqOf(C)
  IN  SetMax({cts[k + 1] - cts[k] : k \in 1..(Len(cts) - 1)})

\* The best value of (sum of masses) - penalty * (number of splits) over the
\* segmentations of [0, L) whose segments are at most lim long.
BestValue(penalty, lim) ==
  SetMax({TotalMass(S \cup {0, L}) - penalty * Cardinality(S) :
            S \in {T \in SUBSET (1..(L - 1)) : LongestSegment(T \cup {0, L}) <= lim}})

StrictlyIncreasing(s) == \A k \in 1..(Len(s) - 1) : s[k] < s[k + 1]

---------------------------------------------------------------------------
\* C1: for a document of length L >= 1, a penalty > 0 and a seg_limit > 0,
\* the total split_optimal returns is the maximum, over the segmentations of
\* [0, L) into segments of length at most lim, of the sum of the segment
\* masses minus penalty times the number of splits.
C1_OptimalTotalIsMaximum ==
  Returned("split_optimal") =>
    ret.total = BestValue(args.penalty, LimOf(docmat, args.seg_limit))

\* A call whose window is shorter than the document and that split it.
C1_Witness ==
  /\ Returned("split_optimal")
  /\ args.seg_limit # None
  /\ LimOf(docmat, args.seg_limit) >= 2
  /\ LimOf(docmat, args.seg_limit) < L
  /\ Len(ret.splits) >= 1
  /\ ret.total > Mass(0, L)

\* C2: the split positions both splitters return are strictly increasing
\* and lie strictly between 0 and L, so never are the boundary cuts 0 or L.
C2_SplitsIncreasingInside ==
  (Returned("split_greedy") \/ Returned("split_optimal")) =>
    /\ StrictlyIncreasing(ret.splits)
    /\ \A k \in 1..Len(ret.splits) : 0 < ret.splits[k] /\ ret.splits[k] < L

C2_Witness ==
  /\ Returned("split_greedy")
  /\ Len(ret.splits) >= 2
  /\ ret.splits[1] > 1

\* C3: dominance.  The total of split_optimal(docmat, P) without seg_limit
\* is at least the total of split_greedy(docmat, min_gain=P).
C3_OptimalDominatesGreedy ==
  (Returned("split_greedy") /\ args.min_gain # None /\ args.max_splits = None) =>
    split_optimal(docmat, args.min_gain[1], None).total >= ret.total[1]

\* A document on which the greedy splitter splits and ends strictly below
\* the optimum.
C3_Witness ==
  /\ Returned("split_greedy")
  /\ args.min_gain # None
  /\ args.max_splits = None
  /\ Len(ret.splits) >= 1
  /\ split_optimal(docmat, args.min_gain[1], None).total > ret.total[1]

\* C4: the splits split_optimal reconstructs from ptr have the total it
\* reports: get_total(docmat, splits, penalty) equals the returned total.
C4_ReconstructedSplitsHaveTotal ==
  Returned("split_optimal") =>
    get_total(docmat, ret.splits, args.penalty) = ret.total

C4_Witness ==
  /\ Returned("split_optimal")
  /\ Len(ret.splits) >= 2
  /\ args.seg_limit # None

\* C5: with seg_limit >= L the optimality flag split_optimal returns is true.
C5_FlagTrueWhenLimitCoversDocument ==
  (Returned("split_optimal") /\ args.seg_limit # None /\ args.seg_limit[1] >= L) =>
    ret.optimal

\* C6: split_greedy with max_splits = 0 returns no split, and with min_gain
\* given a total equal to the mass of the whole document.
C6_NoSplitWhenMaxSplitsZero ==
  (Ended("split_greedy") /\ args.max_splits = Some(0) /\ L >= 1) =>
    /\ ret.kind = "ok"
    /\ ret.splits = <<>>
    /\ args.min_gain # None => ret.total = Some(Mass(0, L))

\* C7: on a document of length 0 the splitters do not crash: each returns
\* no split, and a total of zero where it returns a total.
C7_EmptyDocumentReturns ==
  /\ (Ended("split_greedy") /\ L = 0
        /\ GreedyAdmissible(args.min_gain, args.max_splits)) =>
       /\ ret.kind = "ok"
       /\ ret.splits = <<>>
       /\ args.min_gain # None => ret.total = Some(0)
  /\ (Ended("split_optimal") /\ L = 0 /\ args.penalty > 0
        /\ (args.seg_limit = None \/ args.seg_limit[1] > 0)) =>
       /\ ret.kind = "ok"
       /\ ret.splits = <<>>
       /\ ret.total = 0

\* No document of the corpus given to get_penalty has a split budget >= 1.
NoDocumentQualifies ==
  \A n \in 1..Len(args.docmats) :
    AvgInt(args.docmats[n], args.segment_len_halves)
      + (IF args.ups[n] THEN 1 ELSE 0) - 1 < 1

\* C8: when no document qualifies, get_penalty gives an explicit "no
\* estimate" outcome, never the undefined mean of an empty list.
C8_NoEstimateIsExplicit ==
  (Ended("get_penalty") /\ NoDocumentQualifies) =>
    /\ ret.kind = "no estimate"
    /\ ~(ret.kind = "ok" /\ ret.nan)

\* C9: P_k reports an error whenever the probe half-window k is <= 0, and
\* returns no ratio.
C9_NonPositiveWindowIsError ==
  (Ended("P_k") /\ ProbeK(args.splits_ref, args.N) <= 0) => ret.kind # "ok"

\* The cuts around a position j that is not a cut.
CutLeft(C, j) == SetMax({c \in C : c < j})

CutRight(C, j) == SetMin({c \in C : j < c})

\* C10: at the head of split_greedy's while loop, segscore[c] is the mass of
\* the segment starting at the cut c; for a position j that is not a cut,
\* score_l[j] is the mass from the cut left of j to j, score_r[j] the mass
\* from j to the cut right of j, score_out[j] the sum of the masses of the
\* segments other than the one holding j, and score[j] the total mass with
\* j split; a cut position carries -inf, so it is not chosen again and the
\* cuts stay distinct.
C10_GreedyLoopInvariant ==
  pc = "greedy_while" =>
    LET C == Range(cuts)
    IN  /\ StrictlyIncreasing(cuts)
        /\ {0, L} \subseteq C /\ C \subseteq 0..L
        /\ DOMAIN segscore = C
        /\ \A c \in C : segscore[c] = IF c = L THEN 0 ELSE Mass(c, CutRight(C, c))
        /\ \A j \in (0..(L - 1)) \ C :
             /\ score_l[j] = Mass(CutLeft(C, j), j)
             /\ score_r[j] = Mass(j, CutRight(C, j))
             /\ score_out[j] = TotalMass(C) - Mass(CutLeft(C, j), CutRight(C, j))
             /\ score[j] = TotalMass(C \cup {j})
        /\ \A c \in C \ {L} : score_out[c] = NegInf /\ score[c] = NegInf

\* The loop head after two splits, with a position still free.
C10_Witness ==
  /\ pc = "greedy_while"
  /\ Len(cuts) >= 4
  /\ \E j \in 0..(L - 1) : j \notin Range(cuts)

====
